---- MODULE Spec2Model ----
(***************************************************************************)
(* A model of biomart-mcp.py: the seven tools of the Biomart MCP server,   *)
(* the two functools.lru_cache caches (get_server, get_translation), the   *)
(* retry loop of get_data and what each tool writes to sys.stderr.         *)
(*                                                                         *)
(* pybiomart (the remote catalog) is the environment: every call into it   *)
(* either raises with some message or returns some table.                  *)
(*                                                                         *)
(* A Python string is modelled as the sequence of its pieces, e.g.         *)
(* f"Error: {str(e)}" is <<"Error: ", msg>> and a CSV text is the sequence *)
(* of its cells and separators, so that .replace("\r", "") is a filter.    *)
(***************************************************************************)
EXTENDS Naturals, Sequences, FiniteSets, TLC

\* ---------------------------------------------------------------- bounds
\* Rows of the two-column tables the mapping is computed for, apart from
\* those the remote answers with.
MaxRows == 3
\* Tool invocations in one behaviour of the sequential specification.
MaxCalls == 3
\* Tool invocations in one behaviour of the concurrent specification.
MaxConcCalls == 2
\* Worker threads of the hosting runtime in the concurrent specification.
NWorkers == 2

\* ------------------------------------------------------ program constants
DEFAULT_HOST == "http://www.ensembl.org"
MAX_RETRIES == 3
RETRY_DELAY == 2
SERVER_MAXSIZE == 10
TRANSLATION_MAXSIZE == 1000

COMMON_ATTRIBUTES ==
    { "ensembl_gene_id", "external_gene_name", "hgnc_symbol", "hgnc_id",
      "gene_biotype", "ensembl_transcript_id", "ensembl_peptide_id",
      "ensembl_exon_id", "description", "chromosome_name", "start_position",
      "end_position", "strand", "band", "transcript_start", "transcript_end",
      "transcription_start_site", "transcript_length" }

\* ------------------------------------------------------------ environment
Workers == 1..NWorkers

\* Mart names a caller may pass; the remote catalog knows only the first.
KnownMart == "ENSEMBL_MART_ENSEMBL"
UnknownMart == "NO_SUCH_MART"
Marts == {KnownMart, UnknownMart}
Dataset == "hsapiens_gene_ensembl"

\* str(e) of what pybiomart raises.
ConnectMsg == "connection refused"
LookupMsg == "unknown mart"
QueryMsgs == {"query timed out", "query rejected"}
ConvertMsg == "malformed response"
ListMsg == "listing failed"

\* A DataFrame: its column names and its rows, in order.
DataFrame(cols, rows) == [cols |-> cols, rows |-> rows]

FromAttr == "hgnc_symbol"
ToAttr == "ensembl_gene_id"
AttributeLists == { <<FromAttr, ToAttr>> }
FilterMaps == { << <<"chromosome_name", "17">> >> }
Targets == {"TP53", "BRCA1"}

\* Row sets the remote dataset may answer a two-column query with; the
\* second has a duplicate from-value and lacks BRCA1.
QueryRows ==
    { << <<"TP53", "ENSG00000141510">>, <<"BRCA1", "ENSG00000012048">> >>,
      << <<"TP53", "ENSG00000141510">>, <<"TP53", "LRG_321">> >> }

\* Tables the remote catalog may answer list_marts / list_datasets with.
MartTables ==
    { DataFrame(<<"name", "display_name">>,
                << <<KnownMart, "Ensembl Genes">> >>) }
DatasetTables ==
    { DataFrame(<<"name", "display_name">>,
                << <<Dataset, "Human genes">> >>) }
FilterTables ==
    { DataFrame(<<"name", "type", "description">>,
                << <<"chromosome_name", "list", "">> >>) }

\* Attribute listings (name, display_name, description) of the dataset.
AttributeRows ==
    { << <<"ensembl_gene_id", "Gene stable ID", "">>,
         <<"affy_hg_u133a", "AFFY HG U133A probe", "">>,
         <<"go_id", "GO term accession", "">> >>,
      << <<"hgnc_symbol", "HGNC symbol", "">>,
         <<"mmusculus_homolog_ensembl_gene", "Mouse gene stable ID", "">>,
         <<"dbass3_id", "DBASS3 id", "">>,
         <<"agilent_wholegenome", "AGILENT probe", "">> >> }

\* The characters of the attribute names and substrings that occur.
Spell(s) ==
    CASE s = "ensembl_gene_id" ->
           <<"e","n","s","e","m","b","l","_","g","e","n","e","_","i","d">>
      [] s = "external_gene_name" ->
           <<"e","x","t","e","r","n","a","l","_","g","e","n","e","_","n","a","m","e">>
      [] s = "hgnc_symbol" ->
           <<"h","g","n","c","_","s","y","m","b","o","l">>
      [] s = "hgnc_id" ->
           <<"h","g","n","c","_","i","d">>
      [] s = "gene_biotype" ->
           <<"g","e","n","e","_","b","i","o","t","y","p","e">>
      [] s = "ensembl_transcript_id" ->
           <<"e","n","s","e","m","b","l","_","t","r","a","n","s","c","r","i","p","t","_","i","d">>
      [] s = "ensembl_peptide_id" ->
           <<"e","n","s","e","m","b","l","_","p","e","p","t","i","d","e","_","i","d">>
      [] s = "ensembl_exon_id" ->
           <<"e","n","s","e","m","b","l","_","e","x","o","n","_","i","d">>
      [] s = "description" ->
           <<"d","e","s","c","r","i","p","t","i","o","n">>
      [] s = "chromosome_name" ->
           <<"c","h","r","o","m","o","s","o","m","e","_","n","a","m","e">>
      [] s = "start_position" ->
           <<"s","t","a","r","t","_","p","o","s","i","t","i","o","n">>
      [] s = "end_position" ->
           <<"e","n","d","_","p","o","s","i","t","i","o","n">>
      [] s = "strand" ->
           <<"s","t","r","a","n","d">>
      [] s = "band" ->
           <<"b","a","n","d">>
      [] s = "transcript_start" ->
           <<"t","r","a","n","s","c","r","i","p","t","_","s","t","a","r","t">>
      [] s = "transcript_end" ->
           <<"t","r","a","n","s","c","r","i","p","t","_","e","n","d">>
      [] s = "transcription_start_site" ->
           <<"t","r","a","n","s","c","r","i","p","t","i","o","n","_","s","t","a","r","t","_","s","i","t","e">>
      [] s = "transcript_length" ->
           <<"t","r","a","n","s","c","r","i","p","t","_","l","e","n","g","t","h">>
      [] s = "affy_hg_u133a" ->
           <<"a","f","f","y","_","h","g","_","u","1","3","3","a">>
      [] s = "go_id" ->
           <<"g","o","_","i","d">>
      [] s = "mmusculus_homolog_ensembl_gene" ->
           <<"m","m","u","s","c","u","l","u","s","_","h","o","m","o","l","o","g","_","e","n","s","e","m","b","l","_","g","e","n","e">>
      [] s = "dbass3_id" ->
           <<"d","b","a","s","s","3","_","i","d">>
      [] s = "agilent_wholegenome" ->
           <<"a","g","i","l","e","n","t","_","w","h","o","l","e","g","e","n","o","m","e">>
      [] s = "_homolog_" ->
           <<"_","h","o","m","o","l","o","g","_">>
      [] s = "dbass" ->
           <<"d","b","a","s","s">>
      [] s = "affy_" ->
           <<"a","f","f","y","_">>
      [] s = "agilent_" ->
           <<"a","g","i","l","e","n","t","_">>

\* sub in s, on character sequences.
IsInfix(sub, s) ==
    \E i \in 0..(Len(s) - Len(sub)) : SubSeq(s, i + 1, i + Len(sub)) = sub

\* name.str.contains(sub): a case-sensitive substring test.
Contains(name, sub) == IsInfix(Spell(sub), Spell(name))

\* os.linesep of the platform the server runs on, DataFrame.to_csv's
\* line terminator.
LineSeps == { <<"\n">>, <<"\r", "\n">> }

\* ------------------------------------------------------- pure functions
RECURSIVE JoinWith(_, _)
\* sep.join(cells), as pieces.
JoinWith(cells, sep) ==
    IF cells = <<>> THEN <<>>
    ELSE IF Len(cells) = 1 THEN <<cells[1]>>
    ELSE <<cells[1], sep>> \o JoinWith(Tail(cells), sep)

RECURSIVE CsvLines(_, _)
CsvLines(rows, linesep) ==
    IF rows = <<>> THEN <<>>
    ELSE JoinWith(rows[1], ",") \o linesep \o CsvLines(Tail(rows), linesep)

\* DataFrame.to_csv(index=False): header line, then one line per row.
ToCsv(df, linesep) == CsvLines(<<df.cols>> \o df.rows, linesep)

\* str.replace("\r", "")
StripCR(text) == SelectSeq(text, LAMBDA c : c # "\r")

\* Faulty variant: the .replace("\r", "") is forgotten.
NormalizeKeepsCR(df, linesep) == ToCsv(df, linesep)

\* .to_csv(index=False).replace("\r", "")
Normalize(df, linesep) == StripCR(ToCsv(df, linesep))

\* f"Error: {str(e)}"
ErrorString(msg) == <<"Error: ", msg>>

\* Faulty variant: the target is left out of the message.
NotFoundStringBare(target) == <<"Error: ", "Target not found">>

\* f"Error: Target '{target}' not found"
NotFoundString(target) == <<"Error: ", "Target '" \o target \o "' not found">>

RECURSIVE DictZipFirstWins(_)
\* Faulty variant: an earlier row keeps its value.
DictZipFirstWins(rows) ==
    IF rows = <<>> THEN <<>>
    ELSE LET n == Len(rows)
             rest == DictZipFirstWins(SubSeq(rows, 1, n - 1))
             k == rows[n][1]
         IN  [x \in DOMAIN rest \cup {k} |->
                 IF x \in DOMAIN rest THEN rest[x] ELSE rows[n][2]]

RECURSIVE DictZip(_)
\* dict(zip(df.iloc[:, 0], df.iloc[:, 1])): a later row overwrites an
\* earlier one with the same key.
DictZip(rows) ==
    IF rows = <<>> THEN <<>>
    ELSE LET n == Len(rows)
             rest == DictZip(SubSeq(rows, 1, n - 1))
             k == rows[n][1]
         IN  [x \in DOMAIN rest \cup {k} |->
                 IF x = k THEN rows[n][2] ELSE rest[x]]

\* ------------------------------------------------------------------ state
VARIABLES
    server_cache,       \* lru_cache of get_server: <<>> or <<handle>>
    translation_cache,  \* lru_cache of get_translation, least recent first
    connects,           \* pybiomart.Server(host=...) constructions so far
    connected,          \* those of them that returned a handle
    tqueries,           \* two-column queries issued, per get_translation key
    calls,              \* tool invocations so far
    linesep,            \* os.linesep of this process
    pc,                 \* per worker: where its tool invocation stands
    op,                 \* per worker: the tool it runs
    args,               \* per worker: the tool's arguments
    attempt,            \* per worker: get_data's loop variable
    server,             \* per worker: the local variable server (0: unset)
    exc,                \* per worker: str(e) of the exception in flight
    result,             \* per worker: what the tool returned or raised
    stderr,             \* per worker: what this invocation wrote to sys.stderr
    sleeps,             \* per worker: time.sleep calls of this invocation
    trace               \* per worker: what the remote did in each attempt

vars == << server_cache, translation_cache, connects, connected, tqueries, calls, linesep,
           pc, op, args, attempt, server, exc, result, stderr, sleeps, trace >>

shared == << server_cache, translation_cache, connects, connected, tqueries, calls, linesep >>

\* get_translation's lru_cache key: its five positional arguments.
Key(a) == << a.mart, a.dataset, a.from_attr, a.to_attr, a.target >>
Keys == { <<m, Dataset, FromAttr, ToAttr, t>> : m \in Marts, t \in Targets }

NoArgs == [mart |-> "", dataset |-> "", attributes |-> <<>>, filters |-> <<>>,
           from_attr |-> "", to_attr |-> "", target |-> ""]
NoFrame == DataFrame(<<>>, <<>>)

\* What a tool invocation ends with.
Returned(text) == [kind |-> "str", text |-> text]
ReturnedNone == [kind |-> "none", text |-> <<>>]
Raised(msg) == [kind |-> "raise", text |-> <<msg>>]
Pending == [kind |-> "pending", text |-> <<>>]

\* Lines printed to sys.stderr.
Line(kind, n, msg) == [kind |-> kind, n |-> n, of |-> 0, msg |-> msg]
\* f"Error getting data (attempt {attempt+1}/{MAX_RETRIES}): {str(e)}"
AttemptLine(a, msg) == [kind |-> "Error getting data", n |-> a + 1, of |-> MAX_RETRIES, msg |-> msg]
\* f"Retrying in {RETRY_DELAY} seconds..."
RetryLine == Line("Retrying", RETRY_DELAY, "")

\* What the remote did in one attempt.
Failed(stage, msg) == [ok |-> FALSE, stage |-> stage, msg |-> msg, df |-> NoFrame]
Answered(df) == [ok |-> TRUE, stage |-> "query", msg |-> "", df |-> df]

Init ==
    /\ server_cache = <<>>
    /\ translation_cache = <<>>
    /\ connects = 0
    /\ connected = 0
    /\ tqueries = [k \in Keys |-> 0]
    /\ calls = 0
    /\ linesep \in LineSeps
    /\ pc = [w \in Workers |-> "idle"]
    /\ op = [w \in Workers |-> "none"]
    /\ args = [w \in Workers |-> NoArgs]
    /\ attempt = [w \in Workers |-> 0]
    /\ server = [w \in Workers |-> 0]
    /\ exc = [w \in Workers |-> ""]
    /\ result = [w \in Workers |-> Pending]
    /\ stderr = [w \in Workers |-> <<>>]
    /\ sleeps = [w \in Workers |-> 0]
    /\ trace = [w \in Workers |-> <<>>]

Free(w) == pc[w] \in {"idle", "done"}

\* A worker picks up a tool invocation: fresh locals; it stands at `at`
\* with r returned so far.
Enter(w, tool, a, at, r) ==
    /\ calls' = calls + 1
    /\ pc' = [pc EXCEPT ![w] = at]
    /\ op' = [op EXCEPT ![w] = tool]
    /\ args' = [args EXCEPT ![w] = a]
    /\ attempt' = [attempt EXCEPT ![w] = 0]
    /\ server' = [server EXCEPT ![w] = 0]
    /\ exc' = [exc EXCEPT ![w] = ""]
    /\ result' = [result EXCEPT ![w] = r]
    /\ stderr' = [stderr EXCEPT ![w] = <<>>]
    /\ sleeps' = [sleeps EXCEPT ![w] = 0]
    /\ trace' = [trace EXCEPT ![w] = <<>>]

\* The invocation ends with r.
Finish(w, r) ==
    /\ pc' = [pc EXCEPT ![w] = "done"]
    /\ result' = [result EXCEPT ![w] = r]

\* An exception with message msg reaches the tool's except clause.
Raise(w, msg) ==
    /\ pc' = [pc EXCEPT ![w] = "except"]
    /\ exc' = [exc EXCEPT ![w] = msg]

Emit(w, lines) == stderr' = [stderr EXCEPT ![w] = @ \o lines]

Remote(w, outcome) == trace' = [trace EXCEPT ![w] = Append(@, outcome)]

At(w, tool, where) == pc[w] = where /\ op[w] = tool

\* -------------------------------------------------------------- get_server
\* Faulty variant: get_server without its lru_cache, connecting every time.
GetServerUncached(w) ==
    /\ pc[w] = "get_server"
    /\ pc' = [pc EXCEPT ![w] = "connect"]
    /\ UNCHANGED << shared, op, args, attempt, server, exc, result, stderr, sleeps, trace >>

\* The lru_cache wrapper of get_server (no arguments: one key): a hit
\* returns the cached handle, a miss runs the body.
GetServer(w) ==
    /\ pc[w] = "get_server"
    /\ IF server_cache # <<>>
          THEN /\ server' = [server EXCEPT ![w] = server_cache[1]]
               /\ pc' = [pc EXCEPT ![w] = "body"]
          ELSE /\ pc' = [pc EXCEPT ![w] = "connect"]
               /\ UNCHANGED server
    /\ UNCHANGED << shared, op, args, attempt, exc, result, stderr, sleeps, trace >>

\* Faulty variant: the wrapper stores nothing.
CacheStoreNothing(cache, k, v, maxsize) == cache

\* lru_cache after the wrapped function returned: the value is stored under
\* the key unless the key was added meanwhile; a full cache drops its least
\* recently used entry.
CacheStore(cache, k, v, maxsize) ==
    IF \E i \in 1..Len(cache) : cache[i].key = k THEN cache
    ELSE IF Len(cache) >= maxsize
         THEN Append(Tail(cache), [key |-> k, value |-> v])
         ELSE Append(cache, [key |-> k, value |-> v])

\* lru_cache on a hit: the entry becomes the most recently used.
CacheTouch(cache, k) ==
    SelectSeq(cache, LAMBDA e : e.key # k) \o SelectSeq(cache, LAMBDA e : e.key = k)

CacheHas(cache, k) == \E i \in 1..Len(cache) : cache[i].key = k
CacheGet(cache, k) == (CHOOSE i \in 1..Len(cache) : cache[i].key = k)
CacheValue(cache, k) == cache[CacheGet(cache, k)].value

\* Faulty variant: the failed connect leaves an entry in the cache.
ConnectCachesFailure(w) ==
    /\ pc[w] = "connect"
    /\ connects' = connects + 1
    /\ \/ /\ server' = [server EXCEPT ![w] = connects + 1]
          /\ connected' = connected + 1
          /\ server_cache' =
                IF server_cache = <<>> THEN << connects + 1 >> ELSE server_cache
          /\ pc' = [pc EXCEPT ![w] = "body"]
          /\ UNCHANGED << exc, stderr, trace >>
       \/ /\ Emit(w, << Line("Error connecting to Biomart server", 0, ConnectMsg) >>)
          /\ Raise(w, ConnectMsg)
          /\ Remote(w, Failed("connect", ConnectMsg))
          /\ server_cache' = << 0 >>
          /\ UNCHANGED << server, connected >>
    /\ UNCHANGED << translation_cache, tqueries, calls, linesep,
                    op, args, attempt, result, sleeps >>

\* The body of get_server on a miss: pybiomart.Server(host=DEFAULT_HOST)
\* either returns a handle, which the wrapper caches, or raises, which is
\* printed and re-raised into the calling tool.
Connect(w) ==
    /\ pc[w] = "connect"
    /\ connects' = connects + 1
    /\ \/ /\ server' = [server EXCEPT ![w] = connects + 1]
          /\ connected' = connected + 1
          /\ server_cache' =
                IF server_cache = <<>> THEN << connects + 1 >> ELSE server_cache
          /\ pc' = [pc EXCEPT ![w] = "body"]
          /\ UNCHANGED << exc, stderr, trace >>
       \/ /\ Emit(w, << Line("Error connecting to Biomart server", 0, ConnectMsg) >>)
          /\ Raise(w, ConnectMsg)
          /\ Remote(w, Failed("connect", ConnectMsg))
          /\ UNCHANGED << server, server_cache, connected >>
    /\ UNCHANGED << translation_cache, tqueries, calls, linesep,
                    op, args, attempt, result, sleeps >>

\* -------------------------------------------------------------- list_marts
CallListMarts(w, budget) ==
    /\ Free(w)
    /\ calls < budget
    /\ Enter(w, "list_marts", NoArgs, "get_server", Pending)
    /\ UNCHANGED << server_cache, translation_cache, connects, connected, tqueries, linesep >>

\* server.list_marts().to_csv(index=False).replace("\r", "")
ListMartsBody(w) ==
    /\ At(w, "list_marts", "body")
    /\ \/ /\ Raise(w, ListMsg)
          /\ Remote(w, Failed("list", ListMsg))
          /\ UNCHANGED result
       \/ \E df \in MartTables :
            /\ Finish(w, Returned(Normalize(df, linesep)))
            /\ Remote(w, Answered(df))
            /\ UNCHANGED exc
    /\ UNCHANGED << shared, op, args, attempt, server, stderr, sleeps >>

ListMartsExcept(w) ==
    /\ At(w, "list_marts", "except")
    /\ Emit(w, << Line("Error listing marts", 0, exc[w]) >>)
    /\ Finish(w, Returned(ErrorString(exc[w])))
    /\ UNCHANGED << shared, op, args, attempt, server, exc, sleeps, trace >>

\* ----------------------------------------------------------- list_datasets
CallListDatasets(w, budget) ==
    /\ Free(w)
    /\ calls < budget
    /\ \E mart \in Marts :
         Enter(w, "list_datasets", [NoArgs EXCEPT !.mart = mart], "get_server", Pending)
    /\ UNCHANGED << server_cache, translation_cache, connects, connected, tqueries, linesep >>

\* server[mart].list_datasets().to_csv(index=False).replace("\r", "")
ListDatasetsBody(w) ==
    /\ At(w, "list_datasets", "body")
    /\ IF args[w].mart # KnownMart
          THEN /\ Raise(w, LookupMsg)
               /\ Remote(w, Failed("lookup", LookupMsg))
               /\ UNCHANGED result
          ELSE \/ /\ Raise(w, ListMsg)
                  /\ Remote(w, Failed("list", ListMsg))
                  /\ UNCHANGED result
               \/ \E df \in DatasetTables :
                    /\ Finish(w, Returned(Normalize(df, linesep)))
                    /\ Remote(w, Answered(df))
                    /\ UNCHANGED exc
    /\ UNCHANGED << shared, op, args, attempt, server, stderr, sleeps >>

\* Faulty variant: the except clause prints and re-raises, as get_server's does.
ListDatasetsReraises(w) ==
    /\ At(w, "list_datasets", "except")
    /\ Emit(w, << Line("Error listing datasets for mart " \o args[w].mart, 0, exc[w]) >>)
    /\ Finish(w, Raised(exc[w]))
    /\ UNCHANGED << shared, op, args, attempt, server, exc, sleeps, trace >>

ListDatasetsExcept(w) ==
    /\ At(w, "list_datasets", "except")
    /\ Emit(w, << Line("Error listing datasets for mart " \o args[w].mart, 0, exc[w]) >>)
    /\ Finish(w, Returned(ErrorString(exc[w])))
    /\ UNCHANGED << shared, op, args, attempt, server, exc, sleeps, trace >>

\* ------------------------------- list_common_attributes, list_all_attributes,
\* ------------------------------- list_filters
\* server = pybiomart.Server(host=DEFAULT_HOST): these three tools build
\* their own handle and have no try block, so what is raised leaves the tool.
NewServer(w) ==
    /\ pc[w] = "new_server"
    /\ connects' = connects + 1
    /\ \/ /\ server' = [server EXCEPT ![w] = connects + 1]
          /\ connected' = connected + 1
          /\ pc' = [pc EXCEPT ![w] = "body"]
          /\ UNCHANGED << result, trace >>
       \/ /\ Finish(w, Raised(ConnectMsg))
          /\ Remote(w, Failed("connect", ConnectMsg))
          /\ UNCHANGED << server, connected >>
    /\ UNCHANGED << server_cache, translation_cache, tqueries, calls, linesep,
                    op, args, attempt, exc, stderr, sleeps >>

CallListCommonAttributes(w, budget) ==
    /\ Free(w)
    /\ calls < budget
    /\ \E mart \in Marts :
         Enter(w, "list_common_attributes",
               [NoArgs EXCEPT !.mart = mart, !.dataset = Dataset], "new_server", Pending)
    /\ UNCHANGED << server_cache, translation_cache, connects, connected, tqueries, linesep >>

CallListAllAttributes(w, budget) ==
    /\ Free(w)
    /\ calls < budget
    /\ \E mart \in Marts :
         Enter(w, "list_all_attributes",
               [NoArgs EXCEPT !.mart = mart, !.dataset = Dataset], "new_server", Pending)
    /\ UNCHANGED << server_cache, translation_cache, connects, connected, tqueries, linesep >>

CallListFilters(w, budget) ==
    /\ Free(w)
    /\ calls < budget
    /\ \E mart \in Marts :
         Enter(w, "list_filters",
               [NoArgs EXCEPT !.mart = mart, !.dataset = Dataset], "new_server", Pending)
    /\ UNCHANGED << server_cache, translation_cache, connects, connected, tqueries, linesep >>

AttributeColumns == <<"name", "display_name", "description">>

\* Faulty variant: the allow-list is not applied.
CommonOnlyUnfiltered(rows) == rows

\* df[df["name"].isin(COMMON_ATTRIBUTES)]
CommonOnly(rows) == SelectSeq(rows, LAMBDA r : r[1] \in COMMON_ATTRIBUTES)

\* df[~df["name"].str.contains(sub, na=False)]
Without(rows, sub) == SelectSeq(rows, LAMBDA r : ~Contains(r[1], sub))

\* The four exclusions of list_all_attributes, in the order of the code.
StableOnly(rows) ==
    Without(Without(Without(Without(rows, "_homolog_"), "dbass"), "affy_"), "agilent_")

\* server[mart][dataset].list_attributes(): raises for an unknown mart or a
\* failed listing, else answers the dataset's attribute rows.
ListCommonAttributesBody(w) ==
    /\ At(w, "list_common_attributes", "body")
    /\ IF args[w].mart # KnownMart
          THEN /\ Finish(w, Raised(LookupMsg))
               /\ Remote(w, Failed("lookup", LookupMsg))
          ELSE \/ /\ Finish(w, Raised(ListMsg))
                  /\ Remote(w, Failed("list", ListMsg))
               \/ \E rows \in AttributeRows :
                    /\ Finish(w, Returned(Normalize(
                           DataFrame(AttributeColumns, CommonOnly(rows)), linesep)))
                    /\ Remote(w, Answered(DataFrame(AttributeColumns, rows)))
    /\ UNCHANGED << shared, op, args, attempt, server, exc, stderr, sleeps >>

ListAllAttributesBody(w) ==
    /\ At(w, "list_all_attributes", "body")
    /\ IF args[w].mart # KnownMart
          THEN /\ Finish(w, Raised(LookupMsg))
               /\ Remote(w, Failed("lookup", LookupMsg))
          ELSE \/ /\ Finish(w, Raised(ListMsg))
                  /\ Remote(w, Failed("list", ListMsg))
               \/ \E rows \in AttributeRows :
                    /\ Finish(w, Returned(Normalize(
                           DataFrame(AttributeColumns, StableOnly(rows)), linesep)))
                    /\ Remote(w, Answered(DataFrame(AttributeColumns, rows)))
    /\ UNCHANGED << shared, op, args, attempt, server, exc, stderr, sleeps >>

\* server[mart][dataset].list_filters().to_csv(index=False).replace("\r", "")
ListFiltersBody(w) ==
    /\ At(w, "list_filters", "body")
    /\ IF args[w].mart # KnownMart
          THEN /\ Finish(w, Raised(LookupMsg))
               /\ Remote(w, Failed("lookup", LookupMsg))
          ELSE \/ /\ Finish(w, Raised(ListMsg))
                  /\ Remote(w, Failed("list", ListMsg))
               \/ \E df \in FilterTables :
                    /\ Finish(w, Returned(Normalize(df, linesep)))
                    /\ Remote(w, Answered(df))
    /\ UNCHANGED << shared, op, args, attempt, server, exc, stderr, sleeps >>

\* ---------------------------------------------------------------- get_data
CallGetData(w, budget) ==
    /\ Free(w)
    /\ calls < budget
    /\ \E mart \in Marts, attributes \in AttributeLists, filters \in FilterMaps :
         Enter(w, "get_data",
               [NoArgs EXCEPT !.mart = mart, !.dataset = Dataset,
                              !.attributes = attributes, !.filters = filters],
               "for", Pending)
    /\ UNCHANGED << server_cache, translation_cache, connects, connected, tqueries, linesep >>

\* for attempt in range(MAX_RETRIES): the next iteration starts with
\* get_server(); a loop that runs out falls off the function's end.
GetDataFor(w) ==
    /\ At(w, "get_data", "for")
    /\ IF attempt[w] < MAX_RETRIES
          THEN /\ pc' = [pc EXCEPT ![w] = "get_server"]
               /\ UNCHANGED result
          ELSE Finish(w, ReturnedNone)
    /\ UNCHANGED << shared, op, args, attempt, server, exc, stderr, sleeps, trace >>

\* return server[mart][dataset].query(attributes=attributes, filters=filters)
\*            .to_csv(index=False).replace("\r", "")
GetDataBody(w) ==
    /\ At(w, "get_data", "body")
    /\ IF args[w].mart # KnownMart
          THEN /\ Raise(w, LookupMsg)
               /\ Remote(w, Failed("lookup", LookupMsg))
               /\ UNCHANGED result
          ELSE \/ \E msg \in QueryMsgs :
                    /\ Raise(w, msg)
                    /\ Remote(w, Failed("query", msg))
                    /\ UNCHANGED result
               \/ /\ Raise(w, ConvertMsg)
                  /\ Remote(w, Failed("convert", ConvertMsg))
                  /\ UNCHANGED result
               \/ \E rows \in QueryRows :
                    LET df == DataFrame(args[w].attributes, rows) IN
                    /\ Finish(w, Returned(Normalize(df, linesep)))
                    /\ Remote(w, Answered(df))
                    /\ UNCHANGED exc
    /\ UNCHANGED << shared, op, args, attempt, server, stderr, sleeps >>

\* Faulty variant: an off-by-one in the test for a further attempt.
RetryAgainOffByOne(a) == a < MAX_RETRIES

\* if attempt < MAX_RETRIES - 1
RetryAgain(a) == a < MAX_RETRIES - 1

\* Faulty variant: the last failure is printed but the return is missing.
GetDataExceptFallsOff(w) ==
    /\ At(w, "get_data", "except")
    /\ IF RetryAgain(attempt[w])
          THEN /\ Emit(w, << AttemptLine(attempt[w], exc[w]), RetryLine >>)
               /\ sleeps' = [sleeps EXCEPT ![w] = @ + 1]
          ELSE /\ Emit(w, << AttemptLine(attempt[w], exc[w]) >>)
               /\ UNCHANGED sleeps
    /\ attempt' = [attempt EXCEPT ![w] = @ + 1]
    /\ pc' = [pc EXCEPT ![w] = "for"]
    /\ UNCHANGED << shared, op, args, server, exc, result, trace >>

\* Faulty variant: the error of the first attempt is kept and returned.
GetDataExceptFirstError(w) ==
    /\ At(w, "get_data", "except")
    /\ IF RetryAgain(attempt[w])
          THEN /\ Emit(w, << AttemptLine(attempt[w], exc[w]), RetryLine >>)
               /\ sleeps' = [sleeps EXCEPT ![w] = @ + 1]
               /\ attempt' = [attempt EXCEPT ![w] = @ + 1]
               /\ pc' = [pc EXCEPT ![w] = "for"]
               /\ UNCHANGED result
          ELSE /\ Emit(w, << AttemptLine(attempt[w], exc[w]) >>)
               /\ Finish(w, Returned(ErrorString(trace[w][1].msg)))
               /\ UNCHANGED << sleeps, attempt >>
    /\ UNCHANGED << shared, op, args, server, exc, trace >>

\* except Exception as e: print the attempt's failure; then either print the
\* retry notice, sleep and go round the loop, or return the error string.
GetDataExcept(w) ==
    /\ At(w, "get_data", "except")
    /\ IF RetryAgain(attempt[w])
          THEN /\ Emit(w, << AttemptLine(attempt[w], exc[w]), RetryLine >>)
               /\ sleeps' = [sleeps EXCEPT ![w] = @ + 1]
               /\ attempt' = [attempt EXCEPT ![w] = @ + 1]
               /\ pc' = [pc EXCEPT ![w] = "for"]
               /\ UNCHANGED result
          ELSE /\ Emit(w, << AttemptLine(attempt[w], exc[w]) >>)
               /\ Finish(w, Returned(ErrorString(exc[w])))
               /\ UNCHANGED << sleeps, attempt >>
    /\ UNCHANGED << shared, op, args, server, exc, trace >>

\* --------------------------------------------------------- get_translation
\* The lru_cache wrapper of get_translation: a hit returns the stored value
\* without running the body; a miss runs it.
CallGetTranslation(w, budget) ==
    /\ Free(w)
    /\ calls < budget
    /\ \E mart \in Marts, target \in Targets :
         LET a == [NoArgs EXCEPT !.mart = mart, !.dataset = Dataset,
                                 !.from_attr = FromAttr, !.to_attr = ToAttr,
                                 !.target = target]
         IN  IF CacheHas(translation_cache, Key(a))
                THEN /\ Enter(w, "get_translation", a, "done",
                              CacheValue(translation_cache, Key(a)))
                     /\ translation_cache' = CacheTouch(translation_cache, Key(a))
                ELSE /\ Enter(w, "get_translation", a, "get_server", Pending)
                     /\ UNCHANGED translation_cache
    /\ UNCHANGED << server_cache, connects, connected, tqueries, linesep >>

\* The wrapped function returns r: the wrapper stores it under the key.
ReturnCached(w, r) ==
    /\ Finish(w, r)
    /\ translation_cache' =
           CacheStore(translation_cache, Key(args[w]), r, TRANSLATION_MAXSIZE)

\* dataset = server[mart][dataset]; df = dataset.query(...);
\* result_dict = dict(zip(...)); the lookup of target.
GetTranslationBody(w) ==
    /\ At(w, "get_translation", "body")
    /\ IF args[w].mart # KnownMart
          THEN /\ Raise(w, LookupMsg)
               /\ Remote(w, Failed("lookup", LookupMsg))
               /\ UNCHANGED << result, stderr, translation_cache, tqueries >>
          ELSE /\ tqueries' = [tqueries EXCEPT ![Key(args[w])] = @ + 1]
               /\ \/ \E msg \in QueryMsgs :
                       /\ Raise(w, msg)
                       /\ Remote(w, Failed("query", msg))
                       /\ UNCHANGED << result, stderr, translation_cache >>
                  \/ /\ Raise(w, ConvertMsg)
                     /\ Remote(w, Failed("convert", ConvertMsg))
                     /\ UNCHANGED << result, stderr, translation_cache >>
                  \/ \E rows \in QueryRows :
                       LET result_dict == DictZip(rows)
                           target == args[w].target
                       IN  /\ Remote(w, Answered(DataFrame(<<FromAttr, ToAttr>>, rows)))
                           /\ UNCHANGED exc
                           /\ IF target \notin DOMAIN result_dict
                                 THEN /\ Emit(w, << Line("Target not found in translation", 0, target) >>)
                                      /\ ReturnCached(w, Returned(NotFoundString(target)))
                                 ELSE /\ ReturnCached(w, Returned(<< result_dict[target] >>))
                                      /\ UNCHANGED stderr
    /\ UNCHANGED << server_cache, connects, connected, calls, linesep,
                    op, args, attempt, server, sleeps >>

\* Faulty variant: the except clause prints and re-raises, as get_server's does.
GetTranslationReraises(w) ==
    /\ At(w, "get_translation", "except")
    /\ Emit(w, << Line("Error in translation", 0, exc[w]) >>)
    /\ Finish(w, Raised(exc[w]))
    /\ UNCHANGED << shared, op, args, attempt, server, exc, sleeps, trace >>

\* Faulty variant: the failure is retried as in get_data.
GetTranslationRetries(w) ==
    /\ At(w, "get_translation", "except")
    /\ Emit(w, << Line("Error in translation", 0, exc[w]) >>)
    /\ IF Len(trace[w]) < MAX_RETRIES
          THEN /\ pc' = [pc EXCEPT ![w] = "get_server"]
               /\ UNCHANGED << result, translation_cache >>
          ELSE ReturnCached(w, Returned(ErrorString(exc[w])))
    /\ UNCHANGED << server_cache, connects, connected, tqueries, calls, linesep,
                    op, args, attempt, server, exc, sleeps, trace >>

GetTranslationExcept(w) ==
    /\ At(w, "get_translation", "except")
    /\ Emit(w, << Line("Error in translation", 0, exc[w]) >>)
    /\ ReturnCached(w, Returned(ErrorString(exc[w])))
    /\ UNCHANGED << server_cache, connects, connected, tqueries, calls, linesep,
                    op, args, attempt, server, exc, sleeps, trace >>

\* ----------------------------------------------------------- specifications
Step(w, budget) ==
    \/ CallListMarts(w, budget)
    \/ CallListDatasets(w, budget)
    \/ CallListCommonAttributes(w, budget)
    \/ CallListAllAttributes(w, budget)
    \/ CallListFilters(w, budget)
    \/ CallGetData(w, budget)
    \/ CallGetTranslation(w, budget)
    \/ GetServer(w)
    \/ Connect(w)
    \/ NewServer(w)
    \/ ListMartsBody(w)
    \/ ListMartsExcept(w)
    \/ ListDatasetsBody(w)
    \/ ListDatasetsExcept(w)
    \/ ListCommonAttributesBody(w)
    \/ ListAllAttributesBody(w)
    \/ ListFiltersBody(w)
    \/ GetDataFor(w)
    \/ GetDataBody(w)
    \/ GetDataExcept(w)
    \/ GetTranslationBody(w)
    \/ GetTranslationExcept(w)

\* One tool invocation at a time: each runs to completion before the next.
Next == Step(1, MaxCalls)

Spec == Init /\ [][Next]_vars

\* Tool invocations arrive concurrently on the runtime's worker threads.
NextConc == \E w \in Workers : Step(w, MaxConcCalls)

SpecConc == Init /\ [][NextConc]_vars

\* The steps of a running get_data invocation.
GetDataRuns(w) ==
    \/ GetDataFor(w)
    \/ GetServer(w)
    \/ Connect(w)
    \/ GetDataBody(w)
    \/ GetDataExcept(w)

\* get_data invocations alone, one at a time.
NextGetData == CallGetData(1, MaxCalls) \/ GetDataRuns(1)

\* A running invocation keeps running: the interpreter executes the next
\* statement, a remote call returns or raises, time.sleep returns.
SpecGetData == Init /\ [][NextGetData]_vars /\ WF_vars(GetDataRuns(1))

\* ------------------------------------------------------------------ claims
Done(w) == pc[w] = "done"
Last(seq) == seq[Len(seq)]
IsString(r) == r.kind = "str"
IsError(r) == r.kind = "str" /\ Len(r.text) = 2 /\ r.text[1] = "Error: "
ErrorOf(msg) == Returned(ErrorString(msg))
NoneOk(tr) == \A i \in 1..Len(tr) : ~tr[i].ok
\* The invocation of w sent a query to the remote dataset.
IssuedQuery(w) == \E i \in 1..Len(trace[w]) : trace[w][i].stage \in {"query", "convert"}
ConnectLine == Line("Error connecting to Biomart server", 0, ConnectMsg)
CachedTools == {"list_marts", "list_datasets", "get_data", "get_translation"}
ListTools == {"list_marts", "list_datasets", "list_common_attributes",
              "list_all_attributes", "list_filters"}

\* C1: when attempts 1..k-1 of a get_data call fail and attempt k answers,
\* the call is over at once, it has made exactly k attempts (k <= 3), and it
\* returns the CSV text of attempt k's table with every "\r" removed.
C1_GetDataSuccess ==
    \A w \in Workers :
        (op[w] = "get_data" /\ trace[w] # <<>> /\ Last(trace[w]).ok) =>
            /\ Done(w)
            /\ result[w] = Returned(StripCR(ToCsv(Last(trace[w]).df, linesep)))
            /\ "\r" \notin { result[w].text[i] : i \in 1..Len(result[w].text) }
            /\ Len(trace[w]) = attempt[w] + 1
            /\ Len(trace[w]) <= MAX_RETRIES
            /\ NoneOk(SubSeq(trace[w], 1, Len(trace[w]) - 1))

\* C1 witness: a get_data call that failed twice and was answered the third
\* time, on a platform whose line separator has a "\r".
C1_Witness ==
    \E w \in Workers :
        /\ op[w] = "get_data" /\ Done(w)
        /\ Len(trace[w]) = 3 /\ trace[w][3].ok /\ ~trace[w][1].ok /\ ~trace[w][2].ok
        /\ linesep = <<"\r", "\n">>

\* What a get_data call whose attempts tr all failed has printed from
\* attempt i on; withConnect: get_server's own line for a failed connect.
RECURSIVE ExhaustedLog(_, _, _)
ExhaustedLog(tr, i, withConnect) ==
    IF i > Len(tr) THEN <<>>
    ELSE (IF withConnect /\ tr[i].stage = "connect" THEN <<ConnectLine>> ELSE <<>>)
         \o << AttemptLine(i - 1, tr[i].msg) >>
         \o (IF i < Len(tr) THEN <<RetryLine>> ELSE <<>>)
         \o ExhaustedLog(tr, i + 1, withConnect)

\* The third attempt of w's get_data call has failed and been handled.
Exhausted(w) ==
    /\ op[w] = "get_data" /\ pc[w] # "except"
    /\ Len(trace[w]) = MAX_RETRIES /\ NoneOk(trace[w])

\* C2 as stated: after three failed attempts get_data returns an "Error: ..."
\* string and has printed exactly five lines: failure 1/3, retry notice,
\* failure 2/3, retry notice, failure 3/3.
C2_Original ==
    \A w \in Workers :
        Exhausted(w) =>
            /\ Done(w) /\ IsError(result[w])
            /\ stderr[w] = ExhaustedLog(trace[w], 1, FALSE)

\* C2 amended: the three failure lines and two retry notices are there in
\* that order, and each attempt that failed in get_server's connect has, just
\* before its failure line, get_server's own "Error connecting" line.
C2_Exhaustion ==
    \A w \in Workers :
        Exhausted(w) =>
            /\ Done(w) /\ IsError(result[w])
            /\ stderr[w] = ExhaustedLog(trace[w], 1, TRUE)
            /\ SelectSeq(stderr[w], LAMBDA l : l # ConnectLine)
                   = ExhaustedLog(trace[w], 1, FALSE)

\* C2 witness: three failures, the first in connect, the others in the query.
C2_Witness ==
    \E w \in Workers :
        /\ Exhausted(w) /\ Done(w)
        /\ trace[w][1].stage = "connect"
        /\ trace[w][2].stage = "query" /\ trace[w][3].stage = "query"

\* v is what get_translation returns when the mapping was built.
BuiltValue(v, target) == ~IsError(v) \/ v = Returned(NotFoundString(target))

\* C3: once the mapping of a four-tuple has been built for one target, a
\* get_translation call for another target of the same four-tuple sends no
\* query.
C3_KeyExcludesTarget ==
    \A w \in Workers :
        (/\ op[w] = "get_translation" /\ Done(w)
         /\ \E i \in 1..Len(translation_cache) :
               LET e == translation_cache[i] IN
               /\ SubSeq(e.key, 1, 4) = SubSeq(Key(args[w]), 1, 4)
               /\ e.key[5] # args[w].target
               /\ BuiltValue(e.value, e.key[5]))
        => ~IssuedQuery(w)

\* C4: a get_translation call never returns the "Error: ..." of a failed
\* build without having tried the build itself.
C4_FailureNotCached ==
    \A w \in Workers :
        (/\ op[w] = "get_translation" /\ Done(w)
         /\ IsError(result[w])
         /\ result[w] # Returned(NotFoundString(args[w].target)))
        => trace[w] # <<>>

C5_State ==
    \A w \in Workers :
        (op[w] = "get_translation" /\ Done(w)) =>
            LET k == Key(args[w]) IN
            /\ CacheHas(translation_cache, k)
            /\ result[w] = CacheValue(translation_cache, k)
            /\ tqueries[k] <= 1
            /\ tqueries[k] = 0 =>
                  result[w] \in {ErrorOf(ConnectMsg), ErrorOf(LookupMsg)}

C5_Stable ==
    \A k \in Keys :
        CacheHas(translation_cache, k) =>
            /\ CacheHas(translation_cache', k)
            /\ CacheValue(translation_cache', k) = CacheValue(translation_cache, k)

C6_OneConnection == (connected = connects) => connects <= 1

\* C7: under concurrent invocations, no two tools hold different handles
\* obtained through get_server, and no two get_translation calls with the
\* same arguments have both sent the query.
C7_CachesLocked ==
    \A w1, w2 \in Workers :
        w1 # w2 =>
            /\ (/\ op[w1] \in CachedTools /\ op[w2] \in CachedTools
                /\ server[w1] # 0 /\ server[w2] # 0) => server[w1] = server[w2]
            /\ (/\ op[w1] = "get_translation" /\ op[w2] = "get_translation"
                /\ Key(args[w1]) = Key(args[w2])) => ~(IssuedQuery(w1) /\ IssuedQuery(w2))

\* C8: a get_data or get_translation call ends with a string, never with a
\* raised exception or None; when its last attempt failed the string is
\* "Error: " followed by that failure's message.
C8_NeverPropagates ==
    \A w \in Workers :
        (op[w] \in {"get_data", "get_translation"} /\ Done(w)) =>
            /\ IsString(result[w])
            /\ (trace[w] # <<>> /\ ~Last(trace[w]).ok) =>
                  result[w] = ErrorOf(Last(trace[w]).msg)

\* C8 witness: a get_translation call whose build failed on a malformed
\* response while the connection was already cached.
C8_Witness ==
    \E w \in Workers :
        /\ op[w] = "get_translation" /\ Done(w)
        /\ Len(trace[w]) = 1 /\ trace[w][1].stage = "convert"
        /\ result[w] = ErrorOf(ConvertMsg)
        /\ server[w] # 0 /\ connected = 1 /\ calls > 1

\* C9: a list_* call raises only when no connection has ever been
\* established in the process.
C9_ListRaisesOnlyFirstConnect ==
    \A w \in Workers :
        (op[w] \in ListTools /\ Done(w) /\ result[w].kind = "raise") =>
            connected = 0

\* C10: list_marts and list_datasets end with a string; when get_server, the
\* mart lookup or the listing failed, it is "Error: " followed by the
\* failure's message, and list_datasets of an unknown mart gives that error
\* string.
C10_InlineErrors ==
    \A w \in Workers :
        (op[w] \in {"list_marts", "list_datasets"} /\ Done(w)) =>
            /\ IsString(result[w])
            /\ trace[w] # <<>>
            /\ ~Last(trace[w]).ok => result[w] = ErrorOf(Last(trace[w]).msg)
            /\ (op[w] = "list_datasets" /\ args[w].mart = UnknownMart) =>
                  result[w] \in {ErrorOf(LookupMsg), ErrorOf(ConnectMsg)}

\* C10 witness: list_datasets of an unknown mart returned the lookup error.
C10_Witness ==
    \E w \in Workers :
        /\ op[w] = "list_datasets" /\ Done(w)
        /\ args[w].mart = UnknownMart
        /\ result[w] = ErrorOf(LookupMsg)

C11_State ==
    \A w \in Workers :
        /\ (/\ op[w] \in CachedTools /\ pc[w] = "except"
            /\ Last(trace[w]).stage = "connect") =>
               /\ server_cache = <<>>
               /\ exc[w] = ConnectMsg
               /\ stderr[w] # <<>> /\ Last(stderr[w]) = ConnectLine
        /\ pc[w] = "connect" => server_cache = <<>>
        /\ server_cache # <<>> => connected >= 1 /\ server_cache[1] \in 1..connects

C11_Step ==
    \A w \in Workers :
        /\ (pc[w] = "get_server" /\ pc'[w] # "get_server") =>
              IF server_cache = <<>>
                 THEN pc'[w] = "connect" /\ connects' = connects
                 ELSE /\ pc'[w] = "body" /\ server'[w] = server_cache[1]
                      /\ connects' = connects /\ server_cache' = server_cache
        /\ (pc[w] = "connect" /\ pc'[w] # "connect") => connects' = connects + 1

\* C11: a failed connect in get_server is printed, re-raised into the
\* calling tool and leaves the connection cache empty, so that the next
\* get_server call connects anew; once a connect has succeeded, get_server
\* returns the cached handle without connecting.
C11_FailureNotCached == []C11_State /\ [][C11_Step]_vars

\* C11 witness: a first connect failed, a second succeeded, and a later
\* tool invocation holds the cached handle of the second.
C11_Witness ==
    \E w \in Workers :
        /\ op[w] \in CachedTools /\ trace[w] = <<>> /\ pc[w] = "body"
        /\ connects = 2 /\ connected = 1
        /\ server_cache = << 2 >> /\ server[w] = 2

\* rows has a row whose from-value is t.
Present(rows, t) == \E i \in 1..Len(rows) : rows[i][1] = t

\* C12: when the mapping was built and target is not among its from-values,
\* get_translation returns exactly "Error: Target '<target>' not found",
\* after one attempt, without sleeping and without raising; a target that is
\* among the from-values gets one of its to-values, whatever misses the
\* cache holds for the same four-tuple.
C12_TranslationMiss ==
    \A w \in Workers :
        (op[w] = "get_translation" /\ trace[w] # <<>> /\ Last(trace[w]).ok) =>
            LET rows == Last(trace[w]).df.rows
                t == args[w].target
            IN  /\ Done(w) /\ Len(trace[w]) = 1 /\ sleeps[w] = 0
                /\ IF ~Present(rows, t)
                      THEN /\ result[w] =
                                Returned(<<"Error: ", "Target '" \o t \o "' not found">>)
                           /\ stderr[w] = << Line("Target not found in translation", 0, t) >>
                      ELSE /\ \E i \in 1..Len(rows) :
                                rows[i][1] = t /\ result[w] = Returned(<< rows[i][2] >>)
                           /\ stderr[w] = <<>>

\* C12 witness: BRCA1 was looked up and missed; a later lookup of TP53 in
\* the same four-tuple returned its translation.
C12_Witness ==
    \E w \in Workers :
        /\ op[w] = "get_translation" /\ Done(w)
        /\ args[w].target = "TP53" /\ args[w].mart = KnownMart
        /\ result[w] = Returned(<<"ENSG00000141510">>)
        /\ CacheHas(translation_cache, <<KnownMart, Dataset, FromAttr, ToAttr, "BRCA1">>)
        /\ CacheValue(translation_cache, <<KnownMart, Dataset, FromAttr, ToAttr, "BRCA1">>)
              = Returned(<<"Error: ", "Target 'BRCA1' not found">>)

\* C13: a tool invocation that ended with an "Error: ..." string or with a
\* raised exception has written at least one line to sys.stderr.
C13_FailureIsLogged ==
    \A w \in Workers :
        (Done(w) /\ (IsError(result[w]) \/ result[w].kind = "raise")) =>
            stderr[w] # <<>>

EXCLUDED == {"_homolog_", "dbass", "affy_", "agilent_"}

RECURSIVE CsvTextLines(_)
\* The lines of a CSV text, each ended by "\n".
CsvTextLines(text) ==
    IF text = <<>> THEN <<>>
    ELSE LET n == CHOOSE i \in 1..Len(text) :
                     text[i] = "\n" /\ \A j \in 1..(i - 1) : text[j] # "\n"
         IN  << SubSeq(text, 1, n - 1) >> \o CsvTextLines(SubSeq(text, n + 1, Len(text)))

\* The cells of one line: every other piece is a ",".
CsvCells(line) == [i \in 1..((Len(line) + 1) \div 2) |-> line[2 * i - 1]]

\* The data rows of a CSV text (its header line dropped).
CsvRows(text) ==
    LET ls == CsvTextLines(text) IN Tail([i \in 1..Len(ls) |-> CsvCells(ls[i])])

Range(seq) == { seq[i] : i \in 1..Len(seq) }

\* C14: every row list_common_attributes returns is a row list_all_attributes
\* returns for the same attribute listing, its name is in COMMON_ATTRIBUTES
\* and contains none of "_homolog_", "dbass", "affy_", "agilent_"; no name
\* list_all_attributes returns contains one of them either.
C14_CommonSubsetOfAll ==
    /\ \A n \in COMMON_ATTRIBUTES, sub \in EXCLUDED : ~Contains(n, sub)
    /\ \A w \in Workers :
         (/\ op[w] \in {"list_common_attributes", "list_all_attributes"}
          /\ Done(w) /\ trace[w] # <<>> /\ Last(trace[w]).ok) =>
            LET listing == Last(trace[w]).df.rows
                out == CsvRows(result[w].text)
                all == CsvRows(Normalize(DataFrame(AttributeColumns, StableOnly(listing)),
                                         linesep))
            IN  /\ IsString(result[w])
                /\ Range(out) \subseteq Range(listing)
                /\ \A r \in Range(out), sub \in EXCLUDED : ~IsInfix(Spell(sub), Spell(r[1]))
                /\ op[w] = "list_common_attributes" =>
                      /\ Range(out) \subseteq Range(all)
                      /\ \A r \in Range(out) : r[1] \in COMMON_ATTRIBUTES
                      /\ \A r \in Range(all) : r[1] \in COMMON_ATTRIBUTES => r \in Range(out)

\* C14 witness: list_common_attributes kept the one allow-listed row of a
\* listing that also has an excluded and an unlisted name.
C14_Witness ==
    \E w \in Workers :
        /\ op[w] = "list_common_attributes" /\ Done(w)
        /\ trace[w] # <<>> /\ Last(trace[w]).ok
        /\ Len(Last(trace[w]).df.rows) = 3
        /\ CsvRows(result[w].text) = << <<"ensembl_gene_id", "Gene stable ID", "">> >>

\* C15: only get_data sleeps; it has slept once (RETRY_DELAY seconds) for
\* each failed attempt that another attempt followed, each time right after
\* printing the retry notice, so a call that ended at attempt k has slept
\* k - 1 times, at most twice (4 seconds).
C15_SleepsBetweenAttempts ==
    \A w \in Workers :
        /\ op[w] # "get_data" => sleeps[w] = 0
        /\ op[w] = "get_data" =>
             /\ sleeps[w] = Len(SelectSeq(stderr[w], LAMBDA l : l = RetryLine))
             /\ sleeps[w] <= MAX_RETRIES - 1
             /\ sleeps[w] * RETRY_DELAY <= 4
             /\ pc[w] \in {"except", "done"} => sleeps[w] = Len(trace[w]) - 1
             /\ pc[w] \in {"for", "get_server", "connect", "body"} =>
                   sleeps[w] = Len(trace[w])

\* C15 witness: a get_data call answered at its second attempt, one sleep.
C15_Witness ==
    \E w \in Workers :
        /\ op[w] = "get_data" /\ Done(w)
        /\ Len(trace[w]) = 2 /\ trace[w][2].ok /\ sleeps[w] = 1

\* The index of the last row of rows whose from-value is t.
LastRow(rows, t) ==
    CHOOSE i \in 1..Len(rows) :
        rows[i][1] = t /\ \A j \in (i + 1)..Len(rows) : rows[j][1] # t

\* Two-column tables of up to MaxRows rows.
SmallRows ==
    UNION { [1..n -> Targets \X {"ENSG00000141510", "LRG_321"}] : n \in 0..MaxRows }

\* C16: for every row sequence the mapping gives each from-value the
\* to-value of its last row, and get_translation returns that value for a
\* target the table has.
C16_LastWriteWins ==
    /\ calls = 0 =>
          \A rows \in SmallRows :
              /\ DOMAIN DictZip(rows) = { rows[i][1] : i \in 1..Len(rows) }
              /\ \A t \in DOMAIN DictZip(rows) :
                    DictZip(rows)[t] = rows[LastRow(rows, t)][2]
    /\ \A w \in Workers :
          (/\ op[w] = "get_translation" /\ trace[w] # <<>> /\ Last(trace[w]).ok
           /\ Present(Last(trace[w]).df.rows, args[w].target)) =>
              LET rows == Last(trace[w]).df.rows IN
              result[w] = Returned(<< rows[LastRow(rows, args[w].target)][2] >>)

\* C16 witness: the table has two rows for TP53 and the call returned the
\* to-value of the second.
C16_Witness ==
    \E w \in Workers :
        /\ op[w] = "get_translation" /\ Done(w) /\ args[w].target = "TP53"
        /\ trace[w] # <<>> /\ Last(trace[w]).ok
        /\ Last(trace[w]).df.rows =
              << <<"TP53", "ENSG00000141510">>, <<"TP53", "LRG_321">> >>
        /\ result[w] = Returned(<<"LRG_321">>)

\* C17: after three failed attempts get_data returns "Error: " followed by
\* the message of the third failure and nothing else; the message of each
\* attempt is in that attempt's failure line on sys.stderr.
C17_FinalMessage ==
    \A w \in Workers :
        Exhausted(w) =>
            /\ result[w] = Returned(<<"Error: ", trace[w][MAX_RETRIES].msg>>)
            /\ \A i \in 1..MAX_RETRIES :
                  AttemptLine(i - 1, trace[w][i].msg) \in Range(stderr[w])

\* C17 witness: three failures with three different messages.
C17_Witness ==
    \E w \in Workers :
        /\ Exhausted(w) /\ Done(w)
        /\ trace[w][1].msg # trace[w][2].msg
        /\ trace[w][2].msg # trace[w][3].msg
        /\ trace[w][1].msg # trace[w][3].msg

\* C18: one get_translation invocation makes at most one attempt (at most
\* one connect, at most one query), never sleeps and prints no retry notice;
\* when its attempt failed, the next thing it does is return "Error: "
\* followed by the failure's message.
C18_NoRetry ==
    \A w \in Workers :
        op[w] = "get_translation" =>
            /\ Len(trace[w]) <= 1
            /\ sleeps[w] = 0 /\ attempt[w] = 0
            /\ RetryLine \notin Range(stderr[w])
            /\ (trace[w] # <<>> /\ ~Last(trace[w]).ok) =>
                  /\ pc[w] \in {"except", "done"}
                  /\ Done(w) => result[w] = ErrorOf(Last(trace[w]).msg)

\* C18 witness: a get_translation call whose one query failed has returned
\* the error.
C18_Witness ==
    \E w \in Workers :
        /\ op[w] = "get_translation" /\ Done(w)
        /\ Len(trace[w]) = 1 /\ trace[w][1].stage = "query"
        /\ tqueries[Key(args[w])] = 1
        /\ result[w] = ErrorOf(trace[w][1].msg)

C19_State ==
    \A w \in Workers :
        /\ (op[w] \in CachedTools /\ server[w] # 0) => server_cache = << server[w] >>
        /\ op[w] = "get_data" =>
             /\ Len(trace[w]) <= MAX_RETRIES
             /\ pc[w] \in {"get_server", "connect", "body"} =>
                   attempt[w] < MAX_RETRIES /\ Len(trace[w]) = attempt[w]
             /\ pc[w] = "connect" => server_cache = <<>>

C19_Step ==
    /\ server_cache # <<>> => server_cache' = server_cache
    /\ \A w \in Workers :
         (op[w] = "get_data" /\ op'[w] = "get_data" /\ connects' # connects) =>
            /\ pc[w] = "connect" /\ connects' = connects + 1
            /\ \/ /\ pc'[w] = "except" /\ attempt'[w] = attempt[w]
                  /\ trace'[w] = Append(trace[w], Failed("connect", ConnectMsg))
                  /\ server_cache' = <<>>
               \/ /\ pc'[w] = "body" /\ trace'[w] = trace[w]
                  /\ server_cache' = << connects' >> /\ server'[w] = connects'

\* C19: get_data gets its connection from get_server at the start of every
\* attempt; a failed connect is one failed attempt among the at most 3;
\* once a connect has succeeded the cached handle stays, and every later
\* attempt and every later call that goes through get_server holds it
\* without connecting.
C19_ConnectInsideRetry == []C19_State /\ [][C19_Step]_vars

\* C19 witness: a get_data call whose first attempt failed in connect, whose
\* second connected and failed in the query, and whose third was made on the
\* handle of the second: two connects in three attempts.
C19_Witness ==
    \E w \in Workers :
        /\ op[w] = "get_data" /\ Done(w) /\ calls = 1
        /\ Len(trace[w]) = 3
        /\ trace[w][1].stage = "connect" /\ trace[w][2].stage = "query"
        /\ connects = 2 /\ server[w] = 2 /\ server_cache = << 2 >>

C20_State ==
    \A w \in Workers :
        op[w] = "get_data" =>
            /\ Len(trace[w]) <= MAX_RETRIES /\ attempt[w] < MAX_RETRIES
            /\ Done(w) =>
                  /\ IsString(result[w]) /\ result[w] # ReturnedNone
                  /\ trace[w] # <<>>
                  /\ IF Last(trace[w]).ok
                        THEN result[w] = Returned(Normalize(Last(trace[w]).df, linesep))
                        ELSE IsError(result[w]) /\ Len(trace[w]) = MAX_RETRIES

\* C20: every get_data invocation comes to an end, after at most 3 attempts,
\* with a table string or an "Error: ..." string, never with None.
C20_Terminates ==
    /\ []C20_State
    /\ \A w \in Workers :
          (op[w] = "get_data" /\ ~Done(w)) ~> (Done(w) /\ IsString(result[w]))

\* C20 witness: a get_data invocation ended after three failed attempts, the
\* last on a malformed response.
C20_Witness ==
    \E w \in Workers :
        /\ op[w] = "get_data" /\ Done(w)
        /\ Len(trace[w]) = MAX_RETRIES /\ trace[w][MAX_RETRIES].stage = "convert"
        /\ IsError(result[w])
====
